---- MODULE Spec2Model ----
(***************************************************************************)
(* JemallocNodumpAllocator (cache/jemalloc_nodump_allocator.cc).           *)
(*                                                                         *)
(* The model covers the factory NewJemallocNodumpAllocator, the allocator  *)
(* object (constructor, Allocate, destructor), the extent-allocation       *)
(* interceptor JemallocNodumpAllocator::Alloc and the process-wide slot    *)
(* original_alloc_.  jemalloc (mallctl, mallocx) and madvise are the       *)
(* environment: each call returns a status chosen nondeterministically.    *)
(* assert() is compiled out when NDEBUG is defined, so the build is part   *)
(* of the initial state.                                                   *)
(***************************************************************************)
EXTENDS Integers, Sequences, FiniteSets, TLC

\* ------------------------------------------------------------------ bounds
MaxCalls == 2
MaxArenas == 2
NumErrCodes == 1
MaxExtents == 1

\* Two application threads call create, allocate and drop their allocators:
\* the races on original_alloc_ are races between two calls.
Threads == {"t1", "t2"}
ArenaIds == 1..MaxArenas
ErrCodes == 1..NumErrCodes

\* ------------------------------------------------- function pointers, heap
\* nullptr for table pointers, extent addresses and shared_ptr contents, and
\* nullptr as a function pointer (extent_alloc_t*).
nullptr == 0
null_fn == "nullptr"
\* &JemallocNodumpAllocator::Alloc, the interceptor's address.
JemallocAlloc == "JemallocNodumpAllocator::Alloc"

\* jemalloc's static hook tables, by pointer: the tables a new arena may
\* start with.  Their alloc entries are two different functions, so that a
\* create can find an alloc entry that differs from the one published.
StaticTables ==
  <<[alloc |-> "extent_alloc_a", dalloc |-> "extent_dalloc_a", commit |-> "extent_commit_a"],
    [alloc |-> "extent_alloc_b", dalloc |-> "extent_dalloc_b", commit |-> "extent_commit_b"]>>
DefaultTables == DOMAIN StaticTables
OrigFns == {StaticTables[d].alloc : d \in DefaultTables}

\* The content of heap memory that holds no hook table (never allocated, or
\* released).
Released == [alloc |-> "released", dalloc |-> "released", commit |-> "released"]

\* Heap memory for the replacement tables: room for one per create call.
HeapPtrs == (Len(StaticTables) + 1)..(Len(StaticTables) + MaxCalls)

\* MALLOCX_TCACHE_NONE and MALLOCX_ARENA(a) of jemalloc.h, as used on line 99.
MALLOCX_TCACHE_NONE == 256
MALLOCX_ARENA(a) == (a + 1) * 1048576
\* jemalloc's decoding of the arena out of the flags of mallocx/dallocx.
ArenaOfFlags(flags) == (flags \div 1048576) - 1


VARIABLES
  supported,        \* ROCKSDB_JEMALLOC_NODUMP_ALLOCATOR is defined
  ndebug,           \* NDEBUG is defined: assert() expands to nothing
  crashed,          \* the process was terminated
  original_alloc_,  \* JemallocNodumpAllocator::original_alloc_
  arenas,           \* jemalloc: the arena indices that exist
  arena_hooks,      \* jemalloc: arena index -> pointer to its hook table
  arena_default,    \* jemalloc: arena index -> the table it was created with
  heap,             \* hook tables by pointer: the static ones, then HeapPtrs
  extents,          \* the extents mapped for the arenas
  pc,               \* per thread: position in create / in the destructor
  loc,              \* per thread: the locals of NewJemallocNodumpAllocator
  out,              \* per thread: the caller's std::shared_ptr<CacheAllocator>
  status,           \* per thread: the Status the last create returned
  ncalls,           \* number of create calls made so far
  log               \* history kept for the properties

vars == <<supported, ndebug, crashed, original_alloc_, arenas, arena_hooks,
          arena_default, heap, extents, pc, loc, out, status, ncalls, log>>

\* ------------------------------------------------------------------ Status
OK == [code |-> "OK", step |-> "", ret |-> 0]
NoStatus == [code |-> "none", step |-> "", ret |-> 0]
InvalidArgument == [code |-> "InvalidArgument", step |-> "", ret |-> 0]
NotSupported == [code |-> "NotSupported", step |-> "", ret |-> 0]
\* A Status::Incomplete that drops the error code.
Incomplete_nocode(step, ret) == [code |-> "Incomplete", step |-> step, ret |-> 0]

Incomplete(step, ret) == [code |-> "Incomplete", step |-> step, ret |-> ret]

\* A std::shared_ptr is <<>> when empty and <<object>> when it owns an object.
Empty == <<>>

\* The locals of one call: cache_allocator is TRUE when the output parameter
\* is non-null, before is the content of the caller's pointer at the call,
\* dying the object whose destructor the thread is running and ndestroy the
\* number of arena-destroy requests that destructor has issued.  p is the
\* block the caller got from Allocate and has not yet given to Deallocate,
\* hook what the interceptor did for the mallocx call in progress, ret the
\* local of create that receives what mallctl returns.
NoLocals ==
  [cache_allocator |-> FALSE, before |-> Empty, arena_index |-> 0, flags |-> 0,
   hooks |-> nullptr, new_hooks |-> nullptr, dying |-> Empty, ndestroy |-> 0,
   p |-> Empty, hook |-> Empty, ret |-> 0]

\* What stays known of a call that returned an error: the caller's pointer
\* as it was, and the arena the call had created (0 when none).
Failed(l) ==
  [NoLocals EXCEPT !.cache_allocator = l.cache_allocator, !.before = l.before,
                   !.arena_index = l.arena_index]

\* History kept for the properties: the arena-destroy requests issued (the
\* index asked for, and arena_index_ of the object whose destructor asked),
\* their number per arena since the arena was created, the arenas whose create
\* call failed after creating them, and whether the interceptor ever loaded
\* nullptr from original_alloc_, and whether dallocx was ever handed flags
\* naming another arena than the block's.
EmptyLog ==
  [destroy |-> {}, ndestroy |-> [i \in ArenaIds |-> 0], orphans |-> {},
   nullLoad |-> FALSE, misdirected |-> FALSE]

Init ==
  /\ supported \in BOOLEAN
  /\ ndebug \in BOOLEAN
  /\ crashed = FALSE
  /\ original_alloc_ = null_fn
  /\ arenas = {}
  /\ arena_hooks = [i \in ArenaIds |-> nullptr]
  /\ arena_default = [i \in ArenaIds |-> nullptr]
  /\ heap = StaticTables \o [p \in 1..Cardinality(HeapPtrs) |-> Released]
  /\ extents = {}
  /\ pc = [t \in Threads |-> "idle"]
  /\ loc = [t \in Threads |-> NoLocals]
  /\ out = [t \in Threads |-> Empty]
  /\ status = [t \in Threads |-> NoStatus]
  /\ ncalls = 0
  /\ log = EmptyLog

\* A failed assert terminates the process unless NDEBUG removed the assert.
AssertFails == ~ndebug

\* The return codes a call into jemalloc or madvise can produce.
Rets == {0} \cup ErrCodes

Return(t, st) ==
  /\ status' = [status EXCEPT ![t] = st]
  /\ pc' = [pc EXCEPT ![t] = "idle"]

\* ------------------------------------------------------------ create, entry
\* The entry of create without the null check of the output parameter.
EntryStatus_unchecked(isSupported, nonNull) ==
  IF ~isSupported THEN NotSupported ELSE OK

\* The entry of create with the null check ahead of the #ifndef.
EntryStatus_nullFirst(isSupported, nonNull) ==
  IF ~nonNull THEN InvalidArgument
  ELSE IF ~isSupported THEN NotSupported
  ELSE OK

\* Lines 76-85: the build without jemalloc >= 5 / MADV_DONTDUMP, and the
\* null check of the output parameter.
EntryStatus(isSupported, nonNull) ==
  IF ~isSupported THEN NotSupported
  ELSE IF ~nonNull THEN InvalidArgument
  ELSE OK

\* The caller invokes NewJemallocNodumpAllocator(options, cache_allocator);
\* nonNull tells whether cache_allocator points at the caller's shared_ptr.
Call(t, nonNull) ==
  /\ ~crashed
  /\ pc[t] = "idle"
  /\ loc[t].p = Empty
  /\ ncalls < MaxCalls
  /\ ncalls' = ncalls + 1
  /\ loc' = [loc EXCEPT ![t] = [NoLocals EXCEPT !.cache_allocator = nonNull,
                                                !.before = out[t]]]
  /\ status' = [status EXCEPT ![t] = NoStatus]
  /\ pc' = [pc EXCEPT ![t] = "entry"]
  /\ UNCHANGED <<supported, ndebug, crashed, original_alloc_, arenas, arena_hooks,
                 arena_default, heap, extents, out, log>>

\* Lines 76-85.
Entry(t) ==
  /\ ~crashed
  /\ pc[t] = "entry"
  /\ LET st == EntryStatus(supported, loc[t].cache_allocator) IN
       IF st = OK
         THEN /\ pc' = [pc EXCEPT ![t] = "arena_create"]
              /\ UNCHANGED status
         ELSE Return(t, st)
  /\ UNCHANGED <<supported, ndebug, crashed, original_alloc_, arenas, arena_hooks,
                 arena_default, heap, extents, loc, out, ncalls, log>>

\* ----------------------------------------------------- create, arena create
\* The index jemalloc's "arenas.create" hands out: one that is not in use
\* (an index freed by "arena.<i>.destroy" is used again), never 0.
NewArenaIndex == CHOOSE i \in ArenaIds \ arenas : \A j \in ArenaIds \ arenas : i <= j

\* Lines 87-100: mallctl("arenas.create"), which fails when jemalloc says so
\* (it does when no index is left); the new arena has one of jemalloc's
\* static tables.
ArenaCreate(t) ==
  /\ ~crashed
  /\ pc[t] = "arena_create"
  /\ \E ret \in Rets :
       IF ret # 0
         THEN /\ Return(t, Incomplete("arena", ret))
              /\ loc' = [loc EXCEPT ![t] = [Failed(@) EXCEPT !.ret = ret]]
              /\ UNCHANGED <<arenas, arena_hooks, arena_default, crashed, log>>
         ELSE \E d \in DefaultTables : LET i == NewArenaIndex IN
              /\ ArenaIds \ arenas # {}
              /\ arenas' = arenas \cup {i}
              /\ arena_hooks' = [arena_hooks EXCEPT ![i] = d]
              /\ arena_default' = [arena_default EXCEPT ![i] = d]
              /\ log' = [log EXCEPT !.ndestroy[i] = 0]
              /\ loc' = [loc EXCEPT ![t].arena_index = i,
                                    ![t].flags = MALLOCX_ARENA(i) + MALLOCX_TCACHE_NONE]
              /\ crashed' = (i = 0 /\ AssertFails)
              /\ pc' = [pc EXCEPT ![t] = "read_hooks"]
              /\ UNCHANGED status
  /\ UNCHANGED <<supported, ndebug, original_alloc_, heap, extents, out, ncalls>>

\* ------------------------------------------------------- create, read hooks
\* A read failure that destroys the arena before returning.
ReadFailed_rollback(t, ret) ==
  /\ Return(t, Incomplete("read", ret))
  /\ arenas' = arenas \ {loc[t].arena_index}
  /\ log' = [log EXCEPT !.orphans = @ \cup {loc[t].arena_index},
                        !.destroy = @ \cup {[arena |-> loc[t].arena_index, by |-> 0]},
                        !.ndestroy[loc[t].arena_index] = @ + 1]
  /\ loc' = [loc EXCEPT ![t] = [Failed(@) EXCEPT !.ret = ret]]
  /\ UNCHANGED <<arena_hooks, arena_default, extents>>

\* What create does when the read of "arena.<i>.extent_hooks" fails
\* (lines 106-113): it returns, and the arena stays.
ReadFailed(t, ret) ==
  /\ Return(t, Incomplete("read", ret))
  /\ log' = [log EXCEPT !.orphans = @ \cup {loc[t].arena_index}]
  /\ loc' = [loc EXCEPT ![t] = [Failed(@) EXCEPT !.ret = ret]]
  /\ UNCHANGED <<arenas, arena_hooks, arena_default, extents>>

\* Lines 102-113.
ReadHooks(t) ==
  /\ ~crashed
  /\ pc[t] = "read_hooks"
  /\ \E ret \in Rets :
       IF ret # 0
         THEN ReadFailed(t, ret)
         ELSE /\ loc' = [loc EXCEPT ![t].hooks = arena_hooks[loc[t].arena_index]]
              /\ pc' = [pc EXCEPT ![t] = "store_alloc"]
              /\ UNCHANGED <<status, log, arenas, arena_hooks, arena_default, extents>>
  /\ UNCHANGED <<supported, ndebug, crashed, original_alloc_, heap, out, ncalls>>

\* ------------------------------------------------- create, store the original
\* compare_exchange_strong written as a plain store.
exchange_always(cur, expected, desired) ==
  [slot |-> desired, expected |-> expected, success |-> TRUE]

\* std::atomic<T>::compare_exchange_strong(expected, desired) on a slot holding
\* cur: the new content of the slot, of expected, and the result.
compare_exchange_strong(cur, expected, desired) ==
  IF cur = expected
    THEN [slot |-> desired, expected |-> expected, success |-> TRUE]
    ELSE [slot |-> cur, expected |-> cur, success |-> FALSE]

\* Line 121: assert(success || original_alloc == expected).
SameOriginal(success, original_alloc, expected) ==
  success \/ original_alloc = expected

\* create without its "Store existing alloc" block.
StoreOriginal_skipped(t) ==
  /\ ~crashed
  /\ pc[t] = "store_alloc"
  /\ pc' = [pc EXCEPT ![t] = "set_hook"]
  /\ UNCHANGED <<supported, ndebug, crashed, original_alloc_, arenas, arena_hooks,
                 arena_default, heap, extents, loc, out, status, ncalls, log>>

\* create with the compare-and-swap in a loop that ends when it succeeds.
StoreOriginal_spin(t) ==
  /\ ~crashed
  /\ pc[t] = "store_alloc"
  /\ LET original_alloc == heap[loc[t].hooks].alloc
         cas == compare_exchange_strong(original_alloc_, null_fn, original_alloc)
     IN /\ cas.success
        /\ original_alloc_' = cas.slot
        /\ pc' = [pc EXCEPT ![t] = "set_hook"]
  /\ UNCHANGED <<supported, ndebug, crashed, arenas, arena_hooks, arena_default, heap,
                 extents, loc, out, status, ncalls, log>>

\* Lines 115-121: capture hooks->alloc, publish it if the slot is unset, and
\* assert that the slot holds the captured function.
StoreOriginal(t) ==
  /\ ~crashed
  /\ pc[t] = "store_alloc"
  /\ LET original_alloc == heap[loc[t].hooks].alloc
         cas == compare_exchange_strong(original_alloc_, null_fn, original_alloc)
     IN /\ original_alloc_' = cas.slot
        /\ IF ~SameOriginal(cas.success, original_alloc, cas.expected) /\ AssertFails
             THEN /\ crashed' = TRUE
                  /\ UNCHANGED pc
             ELSE /\ pc' = [pc EXCEPT ![t] = "set_hook"]
                  /\ UNCHANGED crashed
  /\ UNCHANGED <<supported, ndebug, arenas, arena_hooks, arena_default, heap,
                 extents, loc, out, status, ncalls, log>>

\* ------------------------------------------------ create, set the custom hook
\* A replacement table built from scratch instead of copied.
NewHooks_blank(hooks) == [alloc |-> JemallocAlloc, dalloc |-> null_fn, commit |-> null_fn]

\* Lines 124-125: the copy of the arena's table with the alloc entry replaced.
NewHooks(hooks) == [hooks EXCEPT !.alloc = JemallocAlloc]

\* operator new: the first free place of the heap.
NewPtr == CHOOSE p \in HeapPtrs :
            heap[p] = Released /\ \A q \in HeapPtrs : heap[q] = Released => p <= q

\* A write failure that destroys the arena before returning.
WriteFailed_rollback(t, p, ret) ==
  /\ Return(t, Incomplete("write", ret))
  /\ heap' = [heap EXCEPT ![p] = Released]
  /\ arenas' = arenas \ {loc[t].arena_index}
  /\ log' = [log EXCEPT !.orphans = @ \cup {loc[t].arena_index},
                        !.destroy = @ \cup {[arena |-> loc[t].arena_index, by |-> 0]},
                        !.ndestroy[loc[t].arena_index] = @ + 1]
  /\ loc' = [loc EXCEPT ![t] = [Failed(@) EXCEPT !.ret = ret]]
  /\ UNCHANGED <<arena_hooks, arena_default, extents>>

\* A write whose result is not checked: create goes on to construct the
\* allocator although the arena still has its old table.
WriteFailed_unchecked(t, p, ret) ==
  /\ heap' = [heap EXCEPT ![p] = NewHooks(heap[loc[t].hooks])]
  /\ loc' = [loc EXCEPT ![t].new_hooks = p]
  /\ pc' = [pc EXCEPT ![t] = "construct"]
  /\ UNCHANGED <<status, log, arenas, arena_hooks, arena_default, extents>>

\* What create does when the write of "arena.<i>.extent_hooks" fails
\* (lines 128-133): it returns; new_hooks goes out of scope, which releases
\* the copy at p.
WriteFailed(t, p, ret) ==
  /\ Return(t, Incomplete("write", ret))
  /\ heap' = [heap EXCEPT ![p] = Released]
  /\ log' = [log EXCEPT !.orphans = @ \cup {loc[t].arena_index}]
  /\ loc' = [loc EXCEPT ![t] = [Failed(@) EXCEPT !.ret = ret]]
  /\ UNCHANGED <<arenas, arena_hooks, arena_default, extents>>

\* Lines 123-133.
SetCustomHook(t) ==
  /\ ~crashed
  /\ pc[t] = "set_hook"
  /\ LET p == NewPtr IN
     \E ret \in Rets :
          IF ret # 0
            THEN WriteFailed(t, p, ret)
            ELSE /\ heap' = [heap EXCEPT ![p] = NewHooks(heap[loc[t].hooks])]
                 /\ arena_hooks' = [arena_hooks EXCEPT ![loc[t].arena_index] = p]
                 /\ loc' = [loc EXCEPT ![t].new_hooks = p]
                 /\ pc' = [pc EXCEPT ![t] = "construct"]
                 /\ UNCHANGED <<status, log, arenas, arena_default, extents>>
  /\ UNCHANGED <<supported, ndebug, crashed, original_alloc_, out, ncalls>>

\* ------------------------------------------------------ create, construction
\* A constructor that leaves arena_index_ at the default arena's neighbour
\* instead of taking its argument.
JemallocNodumpAllocator_fixed(arena_index, flags, hooks) ==
  [arena_index_ |-> 1, flags_ |-> flags, hooks_ |-> hooks]

\* Lines 19-27: the constructor's member initialisers.
JemallocNodumpAllocator(arena_index, flags, hooks) ==
  [arena_index_ |-> arena_index, flags_ |-> flags, hooks_ |-> hooks]

\* Lines 135-138: make_shared and the assignment to *cache_allocator.  The
\* assignment drops the reference the caller's pointer held: that object's
\* destructor runs before create returns.
Construct(t) ==
  /\ ~crashed
  /\ pc[t] = "construct"
  /\ out' = [out EXCEPT ![t] = <<JemallocNodumpAllocator(loc[t].arena_index,
                                    loc[t].flags, loc[t].new_hooks)>>]
  /\ crashed' = (loc[t].arena_index = 0 /\ AssertFails)
  /\ status' = [status EXCEPT ![t] = OK]
  /\ loc' = [loc EXCEPT ![t] = [NoLocals EXCEPT !.dying = out[t]]]
  /\ pc' = [pc EXCEPT ![t] = IF out[t] = Empty THEN "idle" ELSE "dtor_destroy"]
  /\ UNCHANGED <<supported, ndebug, original_alloc_, arenas, arena_hooks,
                 arena_default, heap, extents, ncalls, log>>

\* ---------------------------------------------------------------- destructor
\* The caller drops its reference (the last one): the destructor starts.
Reset(t) ==
  /\ ~crashed
  /\ pc[t] = "idle"
  /\ out[t] # Empty
  /\ loc[t].p = Empty
  /\ out' = [out EXCEPT ![t] = Empty]
  /\ loc' = [loc EXCEPT ![t] = [NoLocals EXCEPT !.dying = out[t]]]
  /\ status' = [status EXCEPT ![t] = NoStatus]
  /\ pc' = [pc EXCEPT ![t] = "dtor_destroy"]
  /\ UNCHANGED <<supported, ndebug, crashed, original_alloc_, arenas, arena_hooks,
                 arena_default, heap, extents, ncalls, log>>

\* A destructor that issues the request twice.
DestroyRequests_twice(obj) == <<obj.arena_index_, obj.arena_index_>>

\* The arena-destroy requests ~JemallocNodumpAllocator issues for object obj
\* (lines 58-60): one, for arena_index_.
DestroyRequests(obj) == <<obj.arena_index_>>

Occurrences(seq, i) == Cardinality({k \in DOMAIN seq : seq[k] = i})

\* jemalloc's "arena.<i>.destroy" for the indices of reqs: on success the
\* arena and its extents are gone; on failure nothing changes.
ArenaDestroy(reqs, ret) ==
  LET gone == IF ret = 0 THEN {reqs[k] : k \in DOMAIN reqs} \cap arenas ELSE {} IN
  /\ arenas' = arenas \ gone
  /\ arena_hooks' = [i \in ArenaIds |-> IF i \in gone THEN nullptr ELSE arena_hooks[i]]
  /\ arena_default' = [i \in ArenaIds |-> IF i \in gone THEN nullptr
                                          ELSE arena_default[i]]
  /\ extents' = {e \in extents : e.arena_ind \notin gone}

\* A destructor whose body releases hooks_ before it asks jemalloc to destroy
\* the arena.
DtorHeap_releaseFirst(obj) == [heap EXCEPT ![obj.hooks_] = Released]

\* The heap after the destructor's body (lines 57-63): the body releases
\* nothing, hooks_ is a member and outlives it.
DtorHeap(obj) == heap

\* A destructor that treats a failed arena-destroy as fatal.
DestroyFailed_fatal(ret) == ret # 0

\* Lines 61-63: whether a non-zero ret of the arena-destroy request ends the
\* process.  It is logged (ROCKS_LOG_ERROR), nothing else.
DestroyFailed(ret) == FALSE

\* Lines 56-63: the destructor's body.  A failure is logged, nothing else.
DtorDestroyArena(t) ==
  /\ ~crashed
  /\ pc[t] = "dtor_destroy"
  /\ LET obj == loc[t].dying[1]
         reqs == DestroyRequests(obj)
     IN /\ \E ret \in Rets :
             /\ ArenaDestroy(reqs, ret)
             /\ crashed' = ((obj.arena_index_ = 0 /\ AssertFails) \/ DestroyFailed(ret))
        /\ heap' = DtorHeap(obj)
        /\ log' = [log EXCEPT
                     !.destroy = @ \cup {[arena |-> reqs[k], by |-> obj.arena_index_] :
                                           k \in DOMAIN reqs},
                     !.ndestroy = [i \in ArenaIds |-> @[i] + Occurrences(reqs, i)]]
  /\ loc' = [loc EXCEPT ![t].ndestroy = @ + Len(DestroyRequests(loc[t].dying[1]))]
  /\ pc' = [pc EXCEPT ![t] = "dtor_release"]
  /\ UNCHANGED <<supported, ndebug, original_alloc_, out, status, ncalls>>

\* Line 64: the members are destroyed after the body; hooks_ releases the
\* replacement hook table.
DtorReleaseMembers(t) ==
  /\ ~crashed
  /\ pc[t] = "dtor_release"
  /\ heap' = [heap EXCEPT ![loc[t].dying[1].hooks_] = Released]
  /\ loc' = [loc EXCEPT ![t].dying = Empty, ![t].ndestroy = 0]
  /\ pc' = [pc EXCEPT ![t] = "idle"]
  /\ UNCHANGED <<supported, ndebug, crashed, original_alloc_, arenas, arena_hooks,
                 arena_default, extents, out, status, ncalls, log>>

\* ------------------------------------------------- interceptor and Allocate
\* The size the callers of the full specification ask for, more than two
\* pages, and the sizes the callers of the size specification ask for: around
\* the boundaries of jemalloc's small classes, of a page and of two pages.
Sizes == {8193}
ProbeSizes == {1, 8, 9, 16, 17, 128, 129, 4095, 4096, 4097, 8192, 8193}

\* jemalloc's size classes (sz_s2u): the usable size of a block of size
\* bytes, the least class that is not smaller.
RECURSIVE lg_ceil(_)
lg_ceil(size) == IF size <= 1 THEN 0 ELSE 1 + lg_ceil((size + 1) \div 2)
RECURSIVE pow2(_)
pow2(x) == IF x = 0 THEN 1 ELSE 2 * pow2(x - 1)
s2u(size) ==
  IF size <= 8 THEN 8
  ELSE LET x == lg_ceil(size)
           delta == pow2(IF x < 7 THEN 4 ELSE x - 3)
       IN ((size + delta - 1) \div delta) * delta

\* The size of the extent jemalloc asks a hook for to serve a block of usize
\* bytes: whole pages.
ExtentSize(usize) == ((usize + 4095) \div 4096) * 4096

\* The arena mallocx/dallocx use for flags: the one MALLOCX_ARENA names, the
\* automatic arena 0 when the flags name none.
MallocxArena(flags) == IF flags \div 1048576 = 0 THEN 0 ELSE ArenaOfFlags(flags)

\* The hook table jemalloc uses for an arena; arena 0 keeps its static table.
ArenaTable(arena_ind) == IF arena_ind = 0 THEN 1 ELSE arena_hooks[arena_ind]

\* The seven arguments jemalloc hands to the alloc hook of arena arena_ind
\* for a block of usize bytes.
HookArgs(arena_ind, usize) ==
  [extent |-> ArenaTable(arena_ind), new_addr |-> nullptr, size |-> ExtentSize(usize),
   alignment |-> 4096, zero |-> FALSE, commit |-> TRUE, arena_ind |-> arena_ind]

\* The smallest address no extent is mapped at.
FreshAddr == CHOOSE x \in 1..(MaxExtents + 1) : \A e \in extents : e.addr # x

\* Lines 43-53 of Alloc, after the original function returned result and
\* madvise returned madvRet: TRUE when Alloc returns to jemalloc, FALSE when
\* assert(false) terminates the process.
AllocReturns(result, madvRet) ==
  IF result # nullptr /\ madvRet # 0 THEN ~AssertFails ELSE TRUE

\* Lines 41-42: the calls Alloc makes to the original function, by their
\* arguments: one, with the arguments Alloc was called with.
OriginalCalls(args) == <<args>>

\* An interceptor that advises whatever the original function returned.
MadviseCalls_unconditional(result, size) ==
  <<[addr |-> result, length |-> size, advice |-> "MADV_DONTDUMP"]>>

\* Lines 43-45: the madvise calls Alloc makes once the original function
\* returned result for a request of size bytes.
MadviseCalls(result, size) ==
  IF result # nullptr
    THEN <<[addr |-> result, length |-> size, advice |-> "MADV_DONTDUMP"]>>
    ELSE <<>>

\* Lines 35-54: what one invocation of Alloc does, for the arguments args,
\* result the original function's return value and madvRet madvise's.
\* returned is <<>> when the process was terminated and <<pointer>> when
\* Alloc returned pointer.
AllocTrace(args, result, madvRet) ==
  [asked |-> args,
   calls |-> OriginalCalls(args),
   result |-> result,
   madvise |-> MadviseCalls(result, args.size),
   returned |-> IF AllocReturns(result, madvRet) THEN <<result>> ELSE <<>>]

\* Lines 35-54: JemallocNodumpAllocator::Alloc, invoked by jemalloc with the
\* arguments args.  mapped says whether the original function maps an extent
\* or returns nullptr, madvRet is what madvise(MADV_DONTDUMP) returns.
Alloc(args, mapped, madvRet) ==
  LET original_alloc == original_alloc_
      result == IF mapped THEN FreshAddr ELSE nullptr
      trace == AllocTrace(args, result, madvRet)
  IN
  IF original_alloc = null_fn
    THEN \* assert(original_alloc != nullptr); without it, a call through nullptr
         /\ log' = [log EXCEPT !.nullLoad = TRUE]
         /\ crashed' = TRUE
         /\ UNCHANGED extents
    ELSE /\ extents' = IF result = nullptr THEN extents
                       ELSE extents \cup
                              {[addr |-> result, arena_ind |-> trace.calls[1].arena_ind,
                                via |-> original_alloc, hooked |-> TRUE,
                                nodump |-> (Len(trace.madvise) > 0 /\ madvRet = 0),
                                returned |-> AllocReturns(result, madvRet)]}
         /\ crashed' = ~AllocReturns(result, madvRet)
         /\ UNCHANGED log

\* An Allocate that leaves the choice of the arena to jemalloc.
AllocateFlags_automatic(obj) == MALLOCX_TCACHE_NONE

\* Line 30: the flags Allocate passes to mallocx.
AllocateFlags(obj) == obj.flags_

\* Line 30: the size Allocate passes to mallocx.
AllocateSize(size) == size

\* The block mallocx(msize, flags) returns, asked for by Allocate(size) of
\* object obj.
Block(obj, size, msize, flags) ==
  [by |-> obj.arena_index_, requested |-> size, flags |-> flags,
   arena |-> MallocxArena(flags), usable |-> s2u(msize)]

\* The extents of arena arena_ind jemalloc can serve a block from.
Fitting(arena_ind) ==
  {e \in extents : e.arena_ind = arena_ind /\ e.returned}

\* Lines 29-31: Allocate calls mallocx(size, flags_).  jemalloc serves the
\* block from an extent of the arena the flags name; when the arena has none
\* with room, it calls the alloc entry of the arena's hook table.  While
\* mallocx runs, p is the block it is about to return.
AllocateSized(t, size) ==
  /\ ~crashed
  /\ pc[t] = "idle"
  /\ out[t] # Empty
  /\ loc[t].p = Empty
  /\   LET obj == out[t][1]
           flags == AllocateFlags(obj)
           msize == AllocateSize(size)
           arena_ind == MallocxArena(flags)
           table == ArenaTable(arena_ind)
           args == HookArgs(arena_ind, s2u(msize))
       IN /\ arena_ind = 0 \/ arena_ind \in arenas
          /\ heap[table] # Released
          /\ IF Fitting(arena_ind) # {}
               THEN /\ loc' = [loc EXCEPT ![t].p = <<Block(obj, size, msize, flags)>>]
                    /\ UNCHANGED <<pc, extents, crashed, log>>
               ELSE /\ Cardinality(extents) < MaxExtents
                    /\ pc' = [pc EXCEPT ![t] = "mallocx"]
                    /\ \E mapped \in BOOLEAN, madvRet \in Rets :
                         IF heap[table].alloc = JemallocAlloc
                           THEN /\ Alloc(args, mapped, madvRet)
                                /\ loc' = [loc EXCEPT
                                     ![t].p = <<Block(obj, size, msize, flags)>>,
                                     ![t].hook = <<AllocTrace(args,
                                                     IF mapped THEN FreshAddr ELSE nullptr,
                                                     madvRet)>>]
                           ELSE /\ madvRet = 0
                                /\ extents' =
                                     IF ~mapped THEN extents
                                     ELSE extents \cup
                                            {[addr |-> FreshAddr, arena_ind |-> arena_ind,
                                              via |-> heap[table].alloc, hooked |-> FALSE,
                                              nodump |-> FALSE, returned |-> TRUE]}
                                /\ loc' = [loc EXCEPT
                                     ![t].p = <<Block(obj, size, msize, flags)>>]
                                /\ UNCHANGED <<crashed, log>>
  /\ UNCHANGED <<supported, ndebug, original_alloc_, arenas, arena_hooks,
                 arena_default, heap, out, status, ncalls>>

Allocate(t) == \E size \in Sizes : AllocateSized(t, size)

\* Line 30: mallocx returns to Allocate, with the block when the arena now has
\* an extent for it and with nullptr otherwise.
AllocateReturn(t) ==
  /\ ~crashed
  /\ pc[t] = "mallocx"
  /\ LET b == loc[t].p[1] IN
       loc' = [loc EXCEPT ![t].hook = Empty,
                          ![t].p = IF Fitting(b.arena) # {} THEN @ ELSE Empty]
  /\ pc' = [pc EXCEPT ![t] = "idle"]
  /\ UNCHANGED <<supported, ndebug, crashed, original_alloc_, arenas, arena_hooks,
                 arena_default, heap, extents, out, status, ncalls, log>>

\* A UsableSize that reports the size its caller passed.
UsableSize_echo(p, allocation_size) == allocation_size

\* Lines 66-69: UsableSize returns malloc_usable_size(p), the size class of
\* the block; allocation_size is not used.
UsableSize(p, allocation_size) == p.usable

\* Line 33: the flags Deallocate passes to dallocx.
DeallocateFlags(obj) == obj.flags_

\* Line 33: Deallocate calls dallocx(p, flags_) for a block the caller got
\* from Allocate of the same object.  jemalloc gives the block back to the
\* arena that owns it; the log notes flags that name another arena.
Deallocate(t) ==
  /\ ~crashed
  /\ pc[t] = "idle"
  /\ out[t] # Empty
  /\ loc[t].p # Empty
  /\ LET flags == DeallocateFlags(out[t][1]) IN
       log' = [log EXCEPT !.misdirected = @ \/ MallocxArena(flags) # loc[t].p[1].arena]
  /\ loc' = [loc EXCEPT ![t].p = Empty]
  /\ UNCHANGED <<supported, ndebug, crashed, original_alloc_, arenas, arena_hooks,
                 arena_default, heap, extents, pc, out, status, ncalls>>

\* ------------------------------------------------------------ specification
Next ==
  \/ \E t \in Threads, nonNull \in BOOLEAN : Call(t, nonNull)
  \/ \E t \in Threads : Entry(t)
  \/ \E t \in Threads : ArenaCreate(t)
  \/ \E t \in Threads : ReadHooks(t)
  \/ \E t \in Threads : StoreOriginal(t)
  \/ \E t \in Threads : SetCustomHook(t)
  \/ \E t \in Threads : Construct(t)
  \/ \E t \in Threads : Reset(t)
  \/ \E t \in Threads : DtorDestroyArena(t)
  \/ \E t \in Threads : DtorReleaseMembers(t)
  \/ \E t \in Threads : Allocate(t)
  \/ \E t \in Threads : AllocateReturn(t)
  \/ \E t \in Threads : Deallocate(t)

Spec == Init /\ [][Next]_vars

\* -------------------------------------------------------- fair specification
\* The steps thread t takes inside create and inside a destructor.  None of
\* them waits for another thread: a thread that is scheduled takes its step.
CreateStep(t) ==
  \/ Entry(t)
  \/ ArenaCreate(t)
  \/ ReadHooks(t)
  \/ StoreOriginal(t)
  \/ SetCustomHook(t)
  \/ Construct(t)
  \/ DtorDestroyArena(t)
  \/ DtorReleaseMembers(t)

FairSpec == Spec /\ \A t \in Threads : WF_vars(CreateStep(t))

\* ------------------------------------------------------- size specification
\* The state after the first create call of the process has returned OK to
\* thread "t1": one arena with the replacement table installed, one allocator.
SizeInit ==
  LET i == 1
      d == 1
      new_hooks == Len(StaticTables) + 1
  IN
  /\ supported = TRUE
  /\ ndebug \in BOOLEAN
  /\ crashed = FALSE
  /\ original_alloc_ = StaticTables[d].alloc
  /\ arenas = {i}
  /\ arena_hooks = [a \in ArenaIds |-> IF a = i THEN new_hooks ELSE nullptr]
  /\ arena_default = [a \in ArenaIds |-> IF a = i THEN d ELSE nullptr]
  /\ heap = StaticTables \o [p \in 1..Cardinality(HeapPtrs) |->
                               IF p = 1 THEN NewHooks(StaticTables[d]) ELSE Released]
  /\ extents = {}
  /\ pc = [t \in Threads |-> "idle"]
  /\ loc = [t \in Threads |-> NoLocals]
  /\ out = [t \in Threads |->
             IF t = "t1"
               THEN <<JemallocNodumpAllocator(i, MALLOCX_ARENA(i) + MALLOCX_TCACHE_NONE,
                                              new_hooks)>>
               ELSE Empty]
  /\ status = [t \in Threads |-> IF t = "t1" THEN OK ELSE NoStatus]
  /\ ncalls = 1
  /\ log = EmptyLog

\* The callers allocate blocks of the sizes of ProbeSizes and free them.
AllocateProbe(t) == \E size \in ProbeSizes : AllocateSized(t, size)

SizeNext ==
  \/ \E t \in Threads : AllocateProbe(t)
  \/ \E t \in Threads : AllocateReturn(t)
  \/ \E t \in Threads : Deallocate(t)

SizeSpec == SizeInit /\ [][SizeNext]_vars

\* ================================================================ properties
\* The threads inside NewJemallocNodumpAllocator, and those that returned from
\* it with an error and have done nothing since.
InCreate(t) ==
  pc[t] \in {"entry", "arena_create", "read_hooks", "store_alloc", "set_hook",
             "construct"}
ReturnedError(t) == pc[t] = "idle" /\ status[t].code \notin {"OK", "none"}
FailedAt(t, step) == ReturnedError(t) /\ status[t].step = step

\* The allocator objects that exist and whose destructor has not yet asked
\* jemalloc to destroy the arena, as <<owner, object>>.
LiveObjects ==
  {<<t, out[t][1]>> : t \in {u \in Threads : out[u] # Empty}}
    \cup {<<t, loc[t].dying[1]>> :
            t \in {u \in Threads : pc[u] = "dtor_destroy" /\ loc[u].dying # Empty}}

\* The arenas whose hook table has the interceptor as its alloc entry.
Intercepted == {i \in arenas : heap[arena_hooks[i]].alloc = JemallocAlloc}

\* C1: original_alloc_ changes at most once: a step changes it only from
\* nullptr, and then to the alloc entry of the table read by a create that is
\* at its compare-and-set; once set it is never overwritten nor reset.
C1_SlotSetOnce ==
  [][original_alloc_' # original_alloc_ =>
       /\ original_alloc_ = null_fn
       /\ \E t \in Threads : /\ pc[t] = "store_alloc"
                             /\ original_alloc_' = heap[loc[t].hooks].alloc]_vars

\* A create got past its compare-and-set with a function other than the one
\* the slot holds.
C1_Witness ==
  \E t \in Threads : /\ pc[t] = "set_hook"
                     /\ original_alloc_ # null_fn
                     /\ heap[loc[t].hooks].alloc # original_alloc_

\* C2: every extent the interceptor returned to jemalloc is excluded from
\* core dumps: when madvise fails the interceptor does not return.
C2_ReturnedExtentsAreNodump ==
  \A e \in extents : e.hooked /\ e.returned => e.nodump

\* C3: the caller's pointer is written only by a create that returns OK, and
\* then it owns an object with a non-zero arena index and a live replacement
\* table (alloc entry: the interceptor) that is the table of its arena; during
\* a create, and after one that returned an error, the pointer is as it was.
C3_NoPartialAllocator ==
  \A t \in Threads :
    /\ status[t] = OK =>
         /\ out[t] # Empty
         /\ out[t][1].arena_index_ # 0
         /\ out[t][1].arena_index_ \in arenas
         /\ out[t][1].hooks_ \in HeapPtrs
         /\ heap[out[t][1].hooks_].alloc = JemallocAlloc
         /\ arena_hooks[out[t][1].arena_index_] = out[t][1].hooks_
         /\ out[t][1].flags_ = MALLOCX_ARENA(out[t][1].arena_index_) + MALLOCX_TCACHE_NONE
    /\ InCreate(t) \/ ReturnedError(t) => out[t] = loc[t].before

\* A create has returned OK and the other thread's create has failed at the
\* hook write.
C3_Witness ==
  \E t, u \in Threads : /\ pc[t] = "idle" /\ status[t] = OK
                        /\ FailedAt(u, "write")

\* C4: the interceptor never loads nullptr from original_alloc_: whenever an
\* arena has the interceptor in its hook table the slot is set.
C4_SlotSetBeforeInstall ==
  /\ ~log.nullLoad
  /\ Intercepted # {} => original_alloc_ # null_fn

\* The interceptor ran for an arena while another create was under way.
C4_Witness ==
  /\ \E e \in extents : e.hooked
  /\ \E t \in Threads : InCreate(t)

\* C5: the allocators alive at the same time have distinct arena indices, each
\* arena has the interceptor installed, and every extent the interceptor
\* mapped was mapped by the function the shared slot holds.
C5_DistinctArenasOneOriginal ==
  /\ \A x, y \in LiveObjects : x[1] # y[1] => x[2].arena_index_ # y[2].arena_index_
  /\ \A x \in LiveObjects : x[2].arena_index_ \in Intercepted
  /\ \A e \in extents : e.hooked => e.via = original_alloc_

\* Two allocators are alive and the interceptor has mapped an extent.
C5_Witness ==
  /\ \A t \in Threads : out[t] # Empty /\ pc[t] = "idle"
  /\ \E e \in extents : e.hooked

\* C6: no arena runs the interceptor while the alloc entry of its own
\* original table differs from the function in the slot: a create that finds
\* the slot set to another function terminates the process.
C6_MismatchIsFatal ==
  \A i \in Intercepted : heap[arena_default[i]].alloc = original_alloc_

\* C7: a create with a null output parameter returns InvalidArgument from its
\* entry, and that step changes nothing else: no arena, no hook table, the
\* slot and the caller's pointers as before.
C7_NullOutputNoEffect ==
  [][\A t \in Threads :
       pc[t] = "entry" /\ pc'[t] # "entry" /\ supported /\ ~loc[t].cache_allocator =>
         /\ pc'[t] = "idle"
         /\ status'[t] = InvalidArgument
         /\ UNCHANGED <<original_alloc_, arenas, arena_hooks, arena_default, heap,
                        extents, out, log, crashed>>]_vars

\* A create with a null output parameter returned while the other thread's
\* create had already created an arena.
C7_Witness ==
  \E t, u \in Threads : /\ pc[t] = "idle" /\ status[t] = InvalidArgument
                        /\ pc[u] = "read_hooks"

\* C8 as stated: no create that failed leaves an arena behind.
C8_FailedCreateLeavesNoArena ==
  \A t \in Threads : ReturnedError(t) => loc[t].arena_index \notin arenas

\* C8, amended: a create that fails before or at the arena creation has
\* created no arena; one that fails at the hook read or the hook write leaves
\* the arena it created, with the table jemalloc gave it; the slot is unset or
\* holds a function of jemalloc.
C8_FailedCreateLeavesOnlyItsArena ==
  /\ original_alloc_ \in OrigFns \cup {null_fn}
  /\ \A t \in Threads :
       ReturnedError(t) =>
         IF status[t].step \in {"read", "write"}
           THEN /\ loc[t].arena_index \in arenas
                /\ arena_hooks[loc[t].arena_index] = arena_default[loc[t].arena_index]
                /\ arena_hooks[loc[t].arena_index] \in DefaultTables
           ELSE loc[t].arena_index = 0

\* Both threads' creates failed, one at the hook read and one at the arena
\* creation.
C8_Witness ==
  \E t, u \in Threads : FailedAt(t, "read") /\ FailedAt(u, "arena")

\* The arenas of the creates that failed at the hook read or the hook write
\* exist, no allocator owns them, no create is using them and no
\* arena-destroy request was issued for them.
C9_OrphansStay ==
  /\ log.orphans \subseteq arenas
  /\ \A i \in log.orphans :
       /\ log.ndestroy[i] = 0
       /\ \A x \in LiveObjects : x[2].arena_index_ # i
       /\ \A t \in Threads : InCreate(t) => loc[t].arena_index # i
  /\ \A t \in Threads :
       FailedAt(t, "read") \/ FailedAt(t, "write") => loc[t].arena_index \in log.orphans

\* C9: no rollback: the arena of a create that failed at the hook read or the
\* hook write stays in jemalloc from then on, owned by no allocator; the
\* failing step leaves the set of arenas as it is, so that the call has added
\* exactly its one arena, an arena no earlier failure had left.
C9_NoRollback ==
  /\ []C9_OrphansStay
  /\ [][\A t \in Threads :
          pc[t] \in {"read_hooks", "set_hook"} /\ pc'[t] = "idle" =>
            /\ arenas' = arenas
            /\ loc[t].arena_index \in arenas
            /\ log'.orphans = log.orphans \cup {loc[t].arena_index}
            /\ Cardinality(log'.orphans) = Cardinality(log.orphans) + 1]_vars

\* Two creates failed after creating their arenas, one at the hook read and
\* one at the hook write: two arenas without an owner.
C9_Witness ==
  /\ \E t, u \in Threads : FailedAt(t, "read") /\ FailedAt(u, "write")
  /\ Cardinality(log.orphans) = 2

\* C10: an allocator's arena-destroy request is issued once, by its
\* destructor: none while the allocator is alive, exactly one when the
\* destructor's body is done; each request issued is for the arena index of
\* the object whose destructor issues it, so none is for the arena of a failed
\* create.
C10_DestroyOnceAtDestruction ==
  /\ \A x \in LiveObjects : log.ndestroy[x[2].arena_index_] = 0
  /\ \A t \in Threads :
       /\ pc[t] = "dtor_destroy" => loc[t].ndestroy = 0
       /\ pc[t] = "dtor_release" => loc[t].ndestroy = 1
       /\ pc[t] \notin {"dtor_destroy", "dtor_release"} => loc[t].ndestroy = 0
  /\ \A r \in log.destroy : r.arena = r.by /\ r.arena # 0
  /\ \A i \in log.orphans : log.ndestroy[i] = 0

\* A destructor has issued its request while the other allocator is alive.
C10_Witness ==
  \E t, u \in Threads : /\ pc[t] = "dtor_release" /\ loc[t].ndestroy = 1
                        /\ out[u] # Empty

\* The table of an allocator that exists, or whose destructor has not yet
\* released its members, is intact.
C11_TableHeldUntilDestroyReturned ==
  /\ \A x \in LiveObjects : heap[x[2].hooks_].alloc = JemallocAlloc
  /\ \A t \in Threads :
       pc[t] = "dtor_release" =>
         /\ loc[t].ndestroy >= 1
         /\ heap[loc[t].dying[1].hooks_].alloc = JemallocAlloc

\* C11: the replacement hook table of an allocator is released only by the
\* step of its destructor that follows the arena-destroy call, whether that
\* call succeeded or failed: it is intact while the allocator is alive, during
\* the destructor's body and when the call has returned.
C11_ReleasedAfterDestroy ==
  /\ []C11_TableHeldUntilDestroyReturned
  /\ [][\A p \in HeapPtrs :
          heap[p] # Released /\ heap'[p] # heap[p] =>
            \E t \in Threads : /\ pc[t] = "dtor_release"
                               /\ pc'[t] = "idle"
                               /\ loc[t].dying[1].hooks_ = p
                               /\ heap'[p] = Released]_vars

\* An arena-destroy call has failed, the arena is still there and the table
\* is about to be released; the other allocator is alive.
C11_Witness ==
  \E t, u \in Threads : /\ pc[t] = "dtor_release"
                        /\ loc[t].dying[1].arena_index_ \in arenas
                        /\ log.ndestroy[loc[t].dying[1].arena_index_] = 1
                        /\ out[u] # Empty

\* C12: the destructor's body always goes on to the release of the members,
\* with one arena-destroy request issued, whatever that request returned: the
\* process is not terminated, no Status changes, and the release then ends
\* the destructor.
C12_DestroyFailureOnlyLogged ==
  [][\A t \in Threads :
       /\ pc[t] = "dtor_destroy" /\ pc'[t] # pc[t] =>
            /\ pc'[t] = "dtor_release"
            /\ loc'[t].ndestroy = 1
            /\ ~crashed'
            /\ status' = status /\ out' = out
       /\ pc[t] = "dtor_release" /\ pc'[t] # pc[t] =>
            /\ pc'[t] = "idle"
            /\ ~crashed'
            /\ status' = status /\ out' = out
            /\ log' = log /\ arenas' = arenas]_vars

\* A destructor has completed although its arena-destroy request failed: the
\* arena is still there with one request counted, and no thread is in a
\* destructor.
C12_Witness ==
  /\ ~crashed
  /\ \A t \in Threads : pc[t] = "idle" /\ out[t] = Empty
  /\ \E i \in arenas \ log.orphans : log.ndestroy[i] = 1

\* The state of the build without the allocator.
C13_State ==
  ~supported =>
    /\ arenas = {} /\ original_alloc_ = null_fn /\ extents = {} /\ log = EmptyLog
    /\ \A t \in Threads : /\ out[t] = Empty
                          /\ pc[t] \in {"idle", "entry"}
                          /\ status[t] \in {NoStatus, NotSupported}
    /\ \A p \in HeapPtrs : heap[p] = Released

\* C13: in the build without the allocator, the entry of create returns
\* NotSupported, for a null output parameter as well, and changes nothing
\* else; no arena exists, the slot is unset and no caller's pointer is written.
C13_NotSupportedBuild ==
  /\ []C13_State
  /\ [][\A t \in Threads :
          ~supported /\ pc[t] = "entry" /\ pc'[t] # "entry" =>
            /\ pc'[t] = "idle"
            /\ status'[t] = NotSupported
            /\ UNCHANGED <<original_alloc_, arenas, arena_hooks, arena_default, heap,
                           extents, out, log, crashed>>]_vars

\* In that build one create returned for a null output parameter and one for
\* a non-null one.
C13_Witness ==
  /\ ~supported
  /\ \E t, u \in Threads : /\ pc[t] = "idle" /\ status[t] = NotSupported
                           /\ ~loc[t].cache_allocator
                           /\ pc[u] = "idle" /\ status[u] = NotSupported
                           /\ loc[u].cache_allocator

\* C14: for every block Allocate is returning or has returned for a request
\* of n bytes, UsableSize reports at least n, whatever is passed as its second
\* argument.
C14_UsableAtLeastRequested ==
  \A t \in Threads :
    loc[t].p # Empty =>
      \A m \in {0} \cup ProbeSizes : UsableSize(loc[t].p[1], m) >= loc[t].p[1].requested

\* Allocate has returned a block of a size that is not a size class, served
\* by an extent the interceptor mapped.
C14_Witness ==
  \E t \in Threads : /\ pc[t] = "idle" /\ loc[t].p # Empty
                      /\ loc[t].p[1].requested = 4097
                      /\ loc[t].p[1].usable > 4097
                      /\ \E e \in extents : e.hooked /\ e.arena_ind = loc[t].p[1].arena

\* The order of the steps of create.
C15_Order ==
  {<<"entry", "arena_create">>, <<"entry", "idle">>,
   <<"arena_create", "read_hooks">>, <<"arena_create", "idle">>,
   <<"read_hooks", "store_alloc">>, <<"read_hooks", "idle">>,
   <<"store_alloc", "set_hook">>,
   <<"set_hook", "construct">>, <<"set_hook", "idle">>,
   <<"construct", "idle">>, <<"construct", "dtor_destroy">>}

\* C15: create runs arena-create, hook read, compare-and-swap, hook write and
\* construction in this order and returns at the first mallctl that returns
\* non-zero, with Incomplete carrying that return value; a failed arena-create
\* leaves the arenas and the slot as they were, a failed hook read leaves the
\* slot and every hook table as they were; OK is returned by the construction
\* step only, which is reached only through three mallctl calls returning 0.
C15_StopsAtFirstFailure ==
  [][\A t \in Threads :
       /\ InCreate(t) /\ pc'[t] # pc[t] => <<pc[t], pc'[t]>> \in C15_Order
       /\ pc[t] \in {"arena_create", "read_hooks", "set_hook"} /\ pc'[t] # pc[t] =>
            IF pc'[t] = "idle"
              THEN /\ loc'[t].ret # 0
                   /\ status'[t] =
                        [code |-> "Incomplete", ret |-> loc'[t].ret,
                         step |-> CASE pc[t] = "arena_create" -> "arena"
                                    [] pc[t] = "read_hooks" -> "read"
                                    [] pc[t] = "set_hook" -> "write"]
                   /\ out' = out
              ELSE loc'[t].ret = 0 /\ status'[t] = status[t]
       /\ pc[t] = "arena_create" /\ pc'[t] = "idle" =>
            UNCHANGED <<arenas, original_alloc_, heap, arena_hooks>>
       /\ pc[t] = "read_hooks" /\ pc'[t] = "idle" =>
            UNCHANGED <<original_alloc_, heap, arena_hooks>>
       /\ pc[t] = "set_hook" /\ pc'[t] = "idle" => arena_hooks' = arena_hooks
       /\ status'[t] = OK /\ status[t] # OK => pc[t] = "construct"
       /\ pc[t] = "construct" /\ pc'[t] # pc[t] => status'[t] = OK]_vars

\* One create has failed at the hook read, after a create of the other
\* thread had published the slot and returned OK.
C15_Witness ==
  \E t, u \in Threads : /\ FailedAt(t, "read")
                        /\ status[t].ret = loc[t].ret
                        /\ pc[u] = "idle" /\ status[u] = OK /\ out[u] # Empty
                        /\ original_alloc_ # null_fn

\* C16: no arena that exists has for its hook table a replacement table that
\* has been released.
C16_NoArenaOnReleasedTable ==
  \A i \in arenas : heap[arena_hooks[i]] # Released

\* The tables of the allocators that exist, and the static tables.
C17_Installed ==
  /\ \A d \in DefaultTables : heap[d] = StaticTables[d]
  /\ \A x \in LiveObjects :
       LET i == x[2].arena_index_ IN
       /\ arena_hooks[i] = x[2].hooks_
       /\ arena_default[i] \in DefaultTables
       /\ heap[arena_hooks[i]].alloc = JemallocAlloc
       /\ heap[arena_default[i]].alloc # JemallocAlloc
       /\ \A f \in DOMAIN Released \ {"alloc"} :
            heap[arena_hooks[i]][f] = heap[arena_default[i]][f]

\* C17: the table create installs is a table of its own that equals the table
\* it read in every entry but alloc, which is the interceptor; the table read
\* is not written.  While the allocator lives, its arena has this table, and
\* jemalloc's static tables are as they were.
C17_OnlyAllocReplaced ==
  /\ []C17_Installed
  /\ [][\A t \in Threads :
          pc[t] = "set_hook" /\ pc'[t] = "construct" =>
            LET old == loc[t].hooks
                new == arena_hooks'[loc[t].arena_index]
            IN /\ new # old
               /\ heap'[old] = heap[old]
               /\ heap'[new].alloc = JemallocAlloc
               /\ heap'[new].alloc # heap[old].alloc
               /\ \A f \in DOMAIN Released \ {"alloc"} : heap'[new][f] = heap[old][f]]_vars

\* Two allocators live on arenas that started with different static tables.
C17_Witness ==
  \E t, u \in Threads :
    /\ out[t] # Empty /\ out[u] # Empty
    /\ arena_default[out[t][1].arena_index_] # arena_default[out[u][1].arena_index_]

\* C18: an invocation of the interceptor calls the original function once,
\* with the arguments it was invoked with; when it returns, it returns what the
\* original function returned; it calls madvise(MADV_DONTDUMP) once, on the
\* returned address and the requested size, when that is not nullptr, and not
\* at all when it is nullptr, which it then returns.
C18_InterceptorPassesThrough ==
  \A t \in Threads :
    loc[t].hook # Empty =>
      LET h == loc[t].hook[1] IN
      /\ h.calls = <<h.asked>>
      /\ h.returned # <<>> => h.returned = <<h.result>>
      /\ h.result = nullptr => h.madvise = <<>> /\ h.returned = <<nullptr>>
      /\ h.result # nullptr =>
           h.madvise = <<[addr |-> h.result, length |-> h.asked.size,
                          advice |-> "MADV_DONTDUMP"]>>

\* One invocation got nullptr from the original function and returned it,
\* another one got an extent, advised it and returned it.
C18_Witness ==
  \E t, u \in Threads :
    /\ loc[t].hook # Empty /\ loc[u].hook # Empty
    /\ loc[t].hook[1].result = nullptr /\ loc[t].hook[1].returned = <<nullptr>>
    /\ loc[u].hook[1].result # nullptr /\ loc[u].hook[1].returned # <<>>
    /\ Len(loc[u].hook[1].madvise) = 1

\* The flags of the allocators that exist and the blocks handed out.
C19_Members ==
  /\ \A x \in LiveObjects :
       x[2].flags_ = MALLOCX_ARENA(x[2].arena_index_) + MALLOCX_TCACHE_NONE
  /\ \A t \in Threads :
       loc[t].p # Empty =>
         /\ out[t] # Empty
         /\ loc[t].p[1].by = out[t][1].arena_index_
         /\ loc[t].p[1].flags = out[t][1].flags_
         /\ loc[t].p[1].arena = out[t][1].arena_index_
         /\ loc[t].p[1].arena \in arenas
  /\ ~log.misdirected

\* C19: the members of an allocator do not change while it exists; the flags
\* name its arena; every block Allocate hands out was asked for with these
\* flags and comes from this arena, and Deallocate has never handed dallocx
\* flags naming another arena than the block's.
C19_OwnArenaOnly ==
  /\ []C19_Members
  /\ [][\A t \in Threads :
          /\ out[t] # Empty /\ out'[t] # Empty /\ pc[t] # "construct" => out'[t] = out[t]
          /\ loc[t].dying # Empty /\ loc'[t].dying # Empty =>
               loc'[t].dying = loc[t].dying]_vars

\* A thread holds a block of the second arena while the allocator of the
\* first arena is alive in the other thread.
C19_Witness ==
  \E t, u \in Threads :
    /\ pc[t] = "idle" /\ loc[t].p # Empty
    /\ loc[t].p[1].arena # 1
    /\ out[u] # Empty /\ out[u][1].arena_index_ = 1

\* C20: a thread inside create gets out of it, or the process is terminated,
\* whenever the thread keeps being scheduled; the compare-and-swap step is
\* taken once: it leads to the hook write or to the termination.
C20_CreateReturns ==
  /\ \A t \in Threads : InCreate(t) ~> (pc[t] = "idle" \/ crashed)
  /\ [][\A t \in Threads :
          pc[t] = "store_alloc" /\ pc'[t] # pc[t] => pc'[t] = "set_hook"]_vars

\* Both threads have returned from create with OK: the second compare-and-swap
\* failed and create went on.
C20_Witness ==
  /\ \A t \in Threads : pc[t] = "idle" /\ status[t] = OK /\ out[t] # Empty
  /\ \E t, u \in Threads : out[t][1].arena_index_ # out[u][1].arena_index_

====
